---- MODULE Spec2Model ----
(***************************************************************************)
(* create-express-starter: the scaffolding CLI (src/src/index.ts, main).   *)
(*                                                                         *)
(* A file name is a sequence of tokens ("package-lock.json" is             *)
(* <<"package-", "lock", ".json">>), so that String.endsWith is a suffix   *)
(* test on tokens.  A path is a sequence of names relative to its root.    *)
(* A tree maps the paths of its files to their contents; directories are   *)
(* the proper prefixes of those paths.  A content is a sequence of tokens  *)
(* (source files) or of lines (env files, a line being a sequence of       *)
(* tokens), so that the regular-expression rewrites act on it.             *)
(***************************************************************************)
EXTENDS Integers, Sequences, FiniteSets, TLC

VARIABLES
    pc,            \* position of main() between two awaits
    templates,     \* the packaged template trees, by template type
    target,        \* the resolved target directory: [exists, files]
    before,        \* the target directory as it was when the run started
    templateType,  \* answer of the template prompt ("unset" before it)
    dbChoice,      \* "sqlite" | "neon"
    shouldGitInit, \* answer of the git prompt: "unset", "yes", "no", "cancel"
    shouldInstall, \* answer of the install prompt
    exitCode,      \* exit code of the process (meaningful once pc = "halt")
    fsops,         \* filesystem steps main() has carried out, in order
    commands,      \* external commands main() has spawned, in order
    log,           \* messages shown to the user, in order
    faults         \* steps at which the filesystem reported an I/O error

\* the generated advance application: a ValkeyGlideStore (services/valkey.ts)
VARIABLES
    closed,        \* this.closed
    client,        \* the GlideClient: [data, sent, quit]
    outcome        \* the last store operation and how it ended

\* the generated advance application: a request on its way through an auth
\* wrapper (middlewares/auth.middleware.ts)
VARIABLES
    wrapper,       \* the wrapper on the route of the request in progress
    authPc,        \* "idle", "getSession", "callback", "done"
    lookup,        \* how auth.api.getSession ended for the request
    reqAuth,       \* req.auth.session: "undefined", "null", "session"
    res,           \* status of the response sent, 0 while none is
    handlerCalls,  \* invocations of the route's handler for the request
    authLog        \* the requests that are over

\* the generated advance application: spamProtection
\* (middlewares/rateLimit.middleware.ts)
VARIABLES
    nodeEnv,          \* env.NODE_ENV
    rateLimitStore,   \* "null" or "store": what valkey-store.ts exported
    now,              \* Date.now(), in milliseconds
    spamStore,        \* spamProtection._store: key -> [count, firstTs]
    cleanupScheduled, \* spamProtection._cleanupScheduled
    arrivals,         \* per key, the times of the requests the fallback handled
    lastReply         \* the request handled last: [key, valkey, via, status]

\* the generated advance application: userController and what it talks to
VARIABLES
    users,      \* the row of the user in the database: [exists, version]
    userStore,  \* the version of the user the cache holds, 0 for none
    requests,   \* the requests for the user, in the order they started
    acked       \* what the successful updates and deletes have acknowledged

cli == <<pc, templates, target, before, templateType, dbChoice,
         shouldGitInit, shouldInstall, exitCode, fsops, commands, log, faults>>

storeVars == <<closed, client, outcome>>

authVars == <<wrapper, authPc, lookup, reqAuth, res, handlerCalls, authLog>>

rateVars == <<nodeEnv, rateLimitStore, now, spamStore, cleanupScheduled, arrivals, lastReply>>

cacheVars == <<users, userStore, requests, acked>>

\* the state of the generated application, which main() never touches
generated == <<storeVars, authVars, rateVars, cacheVars>>

vars == <<cli, generated>>

(***************************************************************************)
(* Bounds                                                                  *)
(***************************************************************************)
\* at most this many I/O errors are injected in one run
MaxFaults == 1

(***************************************************************************)
(* Names and paths                                                         *)
(***************************************************************************)
GitIgnoreTxt == <<"git-ignore", ".txt">>
NodeModules  == <<"node_modules">>
Dist         == <<"dist">>
LockJson     == <<"lock", ".json">>
DotLock      == <<".lock">>
DotYaml      == <<".yaml">>

PackageLockJson == <<"package-", "lock", ".json">>
PnpmLockYaml    == <<"pnpm-lock", ".yaml">>
YarnLock        == <<"yarn", ".lock">>
BunLock         == <<"bun", ".lock">>
LockfileNames   == {PackageLockJson, PnpmLockYaml, YarnLock, BunLock}

SrcDir      == <<"src">>
DrizzleDir  == <<"drizzle">>
UtilsDir    == <<"utils">>

AuthSchemaPath       == <<SrcDir, DrizzleDir, <<"auth-schema", ".ts">>>>
AuthSchemaPgPath     == <<SrcDir, DrizzleDir, <<"auth-schema", ".pg", ".ts">>>>
AuthSchemaSqlitePath == <<SrcDir, DrizzleDir, <<"auth-schema", ".sqlite", ".ts">>>>
DrizzleConfigPath    == << <<"drizzle.config", ".ts">> >>
DrizzleIndexPath     == <<SrcDir, DrizzleDir, <<"index", ".ts">>>>
SchemaPath           == <<SrcDir, DrizzleDir, <<"schema", ".ts">>>>
AuthUtilPath         == <<SrcDir, UtilsDir, <<"auth", ".ts">>>>
GitIgnoreSeedPath    == << GitIgnoreTxt >>
GitIgnorePath        == << <<".gitignore">> >>
EnvPath              == << <<".env">> >>
EnvExampleTxtPath    == << <<"env.example", ".txt">> >>
EnvExamplePath       == << <<"env.example">> >>
PackageJsonPath      == << <<"package", ".json">> >>
AppIndexPath         == <<SrcDir, <<"index", ".ts">>>>

EmptyTree == [p \in {} |-> <<>>]

\* String.prototype.endsWith on token sequences
EndsWith(name, suffix) ==
    /\ Len(name) >= Len(suffix)
    /\ SubSeq(name, Len(name) - Len(suffix) + 1, Len(name)) = suffix

IsPrefix(dir, p) == Len(p) > Len(dir) /\ SubSeq(p, 1, Len(dir)) = dir

\* fs-utils exists(): a file, or a directory that holds one
Exists(tree, p) == p \in DOMAIN tree \/ \E q \in DOMAIN tree : IsPrefix(p, q)

\* fs-utils readIfExists() returns a content (not null) exactly for a file
IsFile(tree, p) == p \in DOMAIN tree

\* fs-utils writeFile()
WriteFile(tree, p, content) == (p :> content) @@ tree

\* fs-utils removeIfExists()
RemoveIfExists(tree, p) == [q \in DOMAIN tree \ {p} |-> tree[q]]

\* fs-utils copyIfExists(): from one tree onto a path of another
CopyIfExists(srcTree, src, dstTree, dst) ==
    IF src \in DOMAIN srcTree THEN WriteFile(dstTree, dst, srcTree[src]) ELSE dstTree

\* the entries of a directory (fs.promises.readdir)
Readdir(tree, dir) == {p[Len(dir) + 1] : p \in {q \in DOMAIN tree : IsPrefix(dir, q)}}

(***************************************************************************)
(* The bulk copy: fs.copy(TEMPLATE_DIR, targetDir, {filter})               *)
(***************************************************************************)
\* CopyFilter without the test for git-ignore.txt
CopyFilterKeepsSeed(filename) ==
    /\ filename # NodeModules
    /\ filename # Dist
    /\ ~EndsWith(filename, LockJson)
    /\ ~EndsWith(filename, DotLock)
    /\ ~EndsWith(filename, DotYaml)

\* CopyFilter without the test for the .lock suffix
CopyFilterNoDotLock(filename) ==
    IF filename = GitIgnoreTxt
    THEN FALSE
    ELSE /\ filename # NodeModules
         /\ filename # Dist
         /\ ~EndsWith(filename, LockJson)
         /\ ~EndsWith(filename, DotYaml)

CopyFilter(filename) ==
    IF filename = GitIgnoreTxt
    THEN FALSE
    ELSE /\ filename # NodeModules
         /\ filename # Dist
         /\ ~EndsWith(filename, LockJson)
         /\ ~EndsWith(filename, DotLock)
         /\ ~EndsWith(filename, DotYaml)

\* the files fs.copy visits below dir: a filtered entry is neither copied
\* nor descended into
RECURSIVE CopySet(_, _)
CopySet(tree, dir) ==
    UNION { IF ~CopyFilter(n) THEN {}
            ELSE IF Append(dir, n) \in DOMAIN tree THEN {Append(dir, n)}
            ELSE CopySet(tree, Append(dir, n))
          : n \in Readdir(tree, dir) }

\* fs.copy applies the filter to the root as well
CopyFiles(type, tree) == IF CopyFilter(<<type>>) THEN CopySet(tree, <<>>) ELSE {}

\* the destination after the files of S have been copied (overwrite: true)
CopyInto(tree, S, dst) == [p \in S |-> tree[p]] @@ dst

(***************************************************************************)
(* Contents and the rewrites of the advance post-processing                *)
(***************************************************************************)
Min(S) == CHOOSE x \in S : \A y \in S : x <= y

\* String.prototype.replace with a regular expression without the g flag:
\* the first token the pattern matches is replaced, the rest is kept
ReplaceFirst(content, matching, replacement) ==
    LET hits == {i \in 1..Len(content) : content[i] \in matching}
    IN  IF hits = {} THEN content
        ELSE [content EXCEPT ![Min(hits)] = replacement]

DialectSqlite     == "dialect: \"sqlite\""
DialectSqliteBare == "dialect:\"sqlite\""
DialectPostgresql == "dialect: \"postgresql\""
\* the tokens /dialect:\s*"sqlite"/ matches
DialectPattern == {DialectSqlite, DialectSqliteBare}

\* RewriteDialect with a pattern that wants exactly one blank after the colon
RewriteDialectOneBlank(content) == ReplaceFirst(content, {DialectSqlite}, DialectPostgresql)

RewriteDialect(content) == ReplaceFirst(content, DialectPattern, DialectPostgresql)

ProviderPg         == "provider: \"pg\""
ProviderSqlite     == "provider: \"sqlite\""
ProviderSqliteBare == "provider:\"sqlite\""
\* the tokens /provider:\s*"pg"|provider:\s*"sqlite"/ matches
ProviderPattern == {ProviderPg, ProviderSqlite, ProviderSqliteBare}

\* RewriteProvider that only ever rewrites towards "pg"
RewriteProviderAlwaysPg(db, content) == ReplaceFirst(content, ProviderPattern, ProviderPg)

RewriteProvider(db, content) ==
    IF db = "neon"
    THEN ReplaceFirst(content, ProviderPattern, ProviderPg)
    ELSE ReplaceFirst(content, ProviderPattern, ProviderSqlite)

ImportAuthSchema       == "./auth-schema"
ImportAuthSchemaSqlite == "./auth-schema.sqlite"
ImportAuthSchemaPg     == "./auth-schema.pg"
\* the tokens /\.\/auth-schema\.(sqlite|pg)/ matches
SchemaImportPattern == {ImportAuthSchemaSqlite, ImportAuthSchemaPg}

RewriteSchemaImport(content) ==
    ReplaceFirst(content, SchemaImportPattern, ImportAuthSchema)

neonDrizzleIndex   == <<"drizzle-orm/neon-http", "@neondatabase/serverless", "neon(env.DATABASE_URL!)">>
sqliteDrizzleIndex == <<"drizzle-orm/better-sqlite3", "connection: { source: env.DATABASE_URL }">>

\* DrizzleIndexFor with the two snippets the wrong way round
DrizzleIndexForSwapped(db) == IF db = "neon" THEN sqliteDrizzleIndex ELSE neonDrizzleIndex

DrizzleIndexFor(db) == IF db = "neon" THEN neonDrizzleIndex ELSE sqliteDrizzleIndex

\* SelectedSrcPath with the two variants the wrong way round
SelectedSrcPathSwapped(db) == IF db = "neon" THEN AuthSchemaSqlitePath ELSE AuthSchemaPgPath

\* the variant of the auth schema the database choice selects
SelectedSrcPath(db) == IF db = "neon" THEN AuthSchemaPgPath ELSE AuthSchemaSqlitePath

\* case folding of the i flag, on the keys the model uses
Upper(key) == IF key \in {"database_url", "Database_Url"} THEN "DATABASE_URL" ELSE key

\* MatchesDatabaseUrl without the i flag
MatchesDatabaseUrlCaseSensitive(line) ==
    Len(line) >= 2 /\ line[1] = "DATABASE_URL" /\ line[2] = "="

\* a line that /^DATABASE_URL=.*$/im matches: the key starts the line
MatchesDatabaseUrl(line) ==
    Len(line) >= 2 /\ Upper(line[1]) = "DATABASE_URL" /\ line[2] = "="

\* replace(/^DATABASE_URL=.*$/gim, ""): every matching line becomes empty,
\* its line terminator stays
StripDatabaseUrl(content) ==
    [i \in 1..Len(content) |-> IF MatchesDatabaseUrl(content[i]) THEN <<>> ELSE content[i]]

EnvContent(type, db, envContent) ==
    IF type = "advance" /\ db = "neon" THEN StripDatabaseUrl(envContent) ELSE envContent

(***************************************************************************)
(* The packaged templates the runs are checked on: the shipped layout and  *)
(* every layout that departs from it in one feature                        *)
(***************************************************************************)
TreeOf(entries) == [p \in {e[1] : e \in entries} |-> (CHOOSE e \in entries : e[1] = p)[2]]

DrizzleConfigShipped == <<"out", DialectSqlite, "dbCredentials">>
AuthUtilShipped      == <<"betterAuth", ProviderPg, "emailAndPassword">>
AuthSchemaSqliteSrc  == <<"sqliteTable">>
AuthSchemaPgSrc      == <<"pgTable">>
EnvExampleShipped    == << <<"PORT", "=", "3000">>, <<"DATABASE_URL", "=", "./dev.db">>,
                           <<"BETTER_AUTH_SECRET", "=", "secret">> >>
GitIgnoreSeed        == <<"node_modules", "dist", ".env">>

ShippedFeatures ==
    [cfg |-> "shipped", auth |-> "pg", index |-> "present", schema |-> "one",
     variants |-> "both", seed |-> "present", env |-> "txt", extra |-> "none"]

FeatureOptions ==
    [cfg      |-> {"absent", "postgresql", "none", "bare", "two"},
     auth     |-> {"absent", "sqlite", "none"},
     index    |-> {"absent"},
     schema   |-> {"absent", "none", "two"},
     variants |-> {"absent", "canonical"},
     seed     |-> {"absent"},
     env      |-> {"absent", "plain", "both", "lower", "indented", "nourl"},
     extra    |-> {"lockfiles", "generated", "yaml", "dotfiles"}]

Features ==
    {ShippedFeatures} \cup
    {[ShippedFeatures EXCEPT ![c[1]] = c[2]] :
        c \in UNION {{<<d, v>> : v \in FeatureOptions[d]} : d \in DOMAIN FeatureOptions}}

CommonEntries(f) ==
    (IF f.seed = "present" THEN {<<GitIgnoreSeedPath, GitIgnoreSeed>>} ELSE {})
    \cup
    (CASE f.env = "txt"      -> {<<EnvExampleTxtPath, EnvExampleShipped>>}
       [] f.env = "plain"    -> {<<EnvExamplePath, EnvExampleShipped>>}
       [] f.env = "both"     -> {<<EnvExampleTxtPath, EnvExampleShipped>>,
                                 <<EnvExamplePath, << <<"PORT", "=", "8080">> >> >>}
       [] f.env = "lower"    -> {<<EnvExampleTxtPath,
                                   << <<"database_url", "=", "a">>, <<"PORT", "=", "3000">>,
                                      <<"DATABASE_URL", "=", "b">> >> >>}
       [] f.env = "indented" -> {<<EnvExampleTxtPath,
                                   << <<"# ", "DATABASE_URL", "=", "a">>,
                                      <<"MY_DATABASE_URL", "=", "b">> >> >>}
       [] f.env = "nourl"    -> {<<EnvExampleTxtPath, << <<"PORT", "=", "3000">> >> >>}
       [] OTHER              -> {})
    \cup
    (CASE f.extra = "lockfiles" ->
            {<< <<PackageLockJson>>, <<"lock">> >>, << <<PnpmLockYaml>>, <<"lock">> >>,
             << <<SrcDir, YarnLock>>, <<"lock">> >>, << <<SrcDir, BunLock>>, <<"lock">> >>}
       [] f.extra = "generated" ->
            {<< <<NodeModules, <<"express">>, <<"index", ".js">>>>, <<"module">> >>,
             << <<Dist, <<"index", ".js">>>>, <<"built">> >>,
             << <<SrcDir, Dist, <<"app", ".js">>>>, <<"built">> >>}
       [] f.extra = "yaml" ->
            {<< << <<"docker-compose", ".yaml">> >>, <<"services">> >>,
             << <<SrcDir, <<"b", "lock", ".json">>>>, <<"blocks">> >>}
       [] f.extra = "dotfiles" ->
            {<<GitIgnorePath, <<"own-ignore">> >>, <<EnvPath, << <<"OWN", "=", "1">> >> >>,
             << <<SrcDir, GitIgnoreTxt>>, <<"nested-seed">> >>}
       [] OTHER -> {})

MkBasic(f) ==
    TreeOf({<<PackageJsonPath, <<"basic-package">> >>, <<AppIndexPath, <<"Hello, World!">> >>}
           \cup CommonEntries(f))

MkAdvance(f) ==
    TreeOf(
        (CASE f.cfg = "shipped"    -> {<<DrizzleConfigPath, DrizzleConfigShipped>>}
           [] f.cfg = "postgresql" -> {<<DrizzleConfigPath, <<"out", DialectPostgresql>> >>}
           [] f.cfg = "none"       -> {<<DrizzleConfigPath, <<"out", "dbCredentials">> >>}
           [] f.cfg = "bare"       -> {<<DrizzleConfigPath, <<DialectSqliteBare, "out">> >>}
           [] f.cfg = "two"        -> {<<DrizzleConfigPath, <<DialectSqlite, DialectSqlite>> >>}
           [] OTHER                -> {})
        \cup
        (CASE f.auth = "pg"     -> {<<AuthUtilPath, AuthUtilShipped>>}
           [] f.auth = "sqlite" -> {<<AuthUtilPath, <<"betterAuth", ProviderSqlite>> >>}
           [] f.auth = "none"   -> {<<AuthUtilPath, <<"betterAuth">> >>}
           [] OTHER             -> {})
        \cup
        (IF f.index = "present" THEN {<<DrizzleIndexPath, <<"template-index">> >>} ELSE {})
        \cup
        (CASE f.schema = "one"  -> {<<SchemaPath, <<"export", ImportAuthSchemaSqlite>> >>}
           [] f.schema = "none" -> {<<SchemaPath, <<"export", ImportAuthSchema>> >>}
           [] f.schema = "two"  -> {<<SchemaPath, <<ImportAuthSchemaPg, ImportAuthSchemaSqlite>> >>}
           [] OTHER             -> {})
        \cup
        (CASE f.variants = "both" -> {<<AuthSchemaSqlitePath, AuthSchemaSqliteSrc>>,
                                      <<AuthSchemaPgPath, AuthSchemaPgSrc>>}
           [] f.variants = "canonical" -> {<<AuthSchemaPath, <<"stale-schema">> >>,
                                           <<AuthSchemaSqlitePath, AuthSchemaSqliteSrc>>,
                                           <<AuthSchemaPgPath, AuthSchemaPgSrc>>}
           [] OTHER -> {})
        \cup CommonEntries(f))

TemplateSets == {[basic |-> MkBasic(f), advance |-> MkAdvance(f)] : f \in Features}

\* the target directory before the run: absent, empty, or somebody's project
Targets ==
    {[exists |-> FALSE, files |-> EmptyTree],
     [exists |-> TRUE,  files |-> EmptyTree],
     [exists |-> TRUE,  files |-> TreeOf({<< << <<"README", ".md">> >>, <<"mine">> >>})],
     [exists |-> TRUE,  files |-> TreeOf({<<AppIndexPath, <<"my-app">> >>,
                                          <<EnvPath, << <<"SECRET", "=", "mine">> >> >>})]}

(***************************************************************************)
(* The generated application before it is started                         *)
(***************************************************************************)
\* private closed = false (valkey.ts:42), on a client that holds nothing
StoreIdle ==
    /\ closed = FALSE
    /\ client = [data |-> "absent", sent |-> <<>>, quit |-> FALSE]
    /\ outcome = [op |-> "none", result |-> "none"]

\* no request is in progress
AuthIdle ==
    /\ wrapper = "none"
    /\ authPc = "idle"
    /\ lookup = "none"
    /\ reqAuth = "undefined"
    /\ res = 0
    /\ handlerCalls = 0
    /\ authLog = <<>>

\* the keys ip:method:path of the requests
RateKeys == {"a", "b"}

\* no request has been seen
RateIdle ==
    /\ nodeEnv = "production"
    /\ rateLimitStore = "null"
    /\ now = 0
    /\ spamStore = [k \in {} |-> 0]
    /\ cleanupScheduled = FALSE
    /\ arrivals = [k \in RateKeys |-> <<>>]
    /\ lastReply = [key |-> "none", valkey |-> "none", via |-> "none", status |-> 0]

\* one user in the database, nothing cached, no request yet
CacheIdle ==
    /\ users = [exists |-> TRUE, version |-> 1]
    /\ userStore = 0
    /\ requests = <<>>
    /\ acked = [version |-> 0, deleted |-> FALSE]

GeneratedIdle == StoreIdle /\ AuthIdle /\ RateIdle /\ CacheIdle

(***************************************************************************)
(* main()                                                                  *)
(***************************************************************************)
Init ==
    /\ pc = "start"
    /\ templates \in TemplateSets
    /\ target \in Targets
    /\ before = target
    /\ templateType = "unset"
    /\ dbChoice = "sqlite"
    /\ shouldGitInit = "unset"
    /\ shouldInstall = "unset"
    /\ exitCode = 0
    /\ fsops = <<>>
    /\ commands = <<>>
    /\ log = <<>>
    /\ faults = {}
    /\ GeneratedIdle

answers == <<templateType, dbChoice, shouldGitInit, shouldInstall>>
disk    == <<templates, target, before>>

\* the filesystem may still report an error at a step
CanFault == Cardinality(faults) < MaxFaults

\* process.exit(1)
Exit1 == pc' = "halt" /\ exitCode' = 1

\* TEMPLATE_DIR
TemplateDir == templates[templateType]

\* a value `if (x)` takes for true: the cancel symbol of @clack/prompts is one
Truthy(answer) == answer \in {"yes", "cancel"}

\* lines 84-98: the target directory from argv[2] or from the text prompt
GetTargetDir ==
    /\ pc = "start"
    /\ \E response \in {"argv", "typed", "empty", "cancel"} :
          IF response \in {"argv", "typed"}
          THEN pc' = "check" /\ UNCHANGED exitCode
          ELSE Exit1
    /\ UNCHANGED <<disk, answers, fsops, commands, log, faults>>
    /\ UNCHANGED generated

\* NotEmpty with an off-by-one length test
NotEmptyOffByOne(dir) == dir.exists /\ Cardinality(Readdir(dir.files, <<>>)) > 1

\* lines 100-102: the directory exists and readdir returns entries
NotEmpty(dir) == dir.exists /\ Cardinality(Readdir(dir.files, <<>>)) > 0

\* lines 100-108: abort on a non-empty target directory
CheckTarget ==
    /\ pc = "check"
    /\ IF NotEmpty(target)
       THEN /\ Exit1
            /\ log' = Append(log, "Aborting: not empty")
       ELSE /\ pc' = "mkdir"
            /\ UNCHANGED <<exitCode, log>>
    /\ UNCHANGED <<disk, answers, fsops, commands, faults>>
    /\ UNCHANGED generated

\* line 109: mkdir(targetDir, {recursive: true}); its rejection leaves main()
\* and is only printed by main().catch(console.error)
Mkdir ==
    /\ pc = "mkdir"
    /\ \/ /\ target' = [target EXCEPT !.exists = TRUE]
          /\ fsops' = Append(fsops, "mkdir")
          /\ pc' = "selectTemplate"
          /\ UNCHANGED <<log, faults>>
       \/ /\ ~target.exists
          /\ CanFault
          /\ faults' = faults \cup {"mkdir"}
          /\ log' = Append(log, "uncaught")
          /\ pc' = "halt"
          /\ UNCHANGED <<target, fsops>>
    /\ UNCHANGED <<templates, before, answers, exitCode, commands>>
    /\ UNCHANGED generated

\* SelectTemplate that goes on to the database prompt for either template
SelectTemplateAlwaysAsksDb ==
    /\ pc = "selectTemplate"
    /\ \E answer \in {"basic", "advance", "cancel"} :
          IF answer = "cancel"
          THEN Exit1 /\ UNCHANGED templateType
          ELSE /\ templateType' = answer
               /\ pc' = "selectDb"
               /\ UNCHANGED exitCode
    /\ UNCHANGED <<disk, dbChoice, shouldGitInit, shouldInstall, fsops, commands, log, faults>>
    /\ UNCHANGED generated

\* lines 112-122
SelectTemplate ==
    /\ pc = "selectTemplate"
    /\ \E answer \in {"basic", "advance", "cancel"} :
          IF answer = "cancel"
          THEN Exit1 /\ UNCHANGED templateType
          ELSE /\ templateType' = answer
               /\ pc' = IF answer = "advance" THEN "selectDb" ELSE "confirmGit"
               /\ UNCHANGED exitCode
    /\ UNCHANGED <<disk, dbChoice, shouldGitInit, shouldInstall, fsops, commands, log, faults>>
    /\ UNCHANGED generated

\* lines 125-137
SelectDb ==
    /\ pc = "selectDb"
    /\ \E answer \in {"sqlite", "neon", "cancel"} :
          IF answer = "cancel"
          THEN Exit1 /\ UNCHANGED dbChoice
          ELSE /\ dbChoice' = answer
               /\ pc' = "confirmGit"
               /\ UNCHANGED exitCode
    /\ UNCHANGED <<disk, templateType, shouldGitInit, shouldInstall, fsops, commands, log, faults>>
    /\ UNCHANGED generated

\* lines 140-142
ConfirmGit ==
    /\ pc = "confirmGit"
    /\ shouldGitInit' \in {"yes", "no", "cancel"}
    /\ pc' = "confirmInstall"
    /\ UNCHANGED <<disk, templateType, dbChoice, shouldInstall, exitCode, fsops, commands, log, faults>>
    /\ UNCHANGED generated

\* lines 145-147
ConfirmInstall ==
    /\ pc = "confirmInstall"
    /\ shouldInstall' \in {"yes", "no", "cancel"}
    /\ pc' = "copy"
    /\ UNCHANGED <<disk, templateType, dbChoice, shouldGitInit, exitCode, fsops, commands, log, faults>>
    /\ UNCHANGED generated

(***************************************************************************)
(* Materialization: lines 153-317                                          *)
(***************************************************************************)
\* StepOrder that post-processes whatever the template type is
StepOrderAlwaysAdvance(type) ==
    <<"copy", "swap", "dialect", "index", "schema", "auth",
      "rmPg", "rmSqlite", "gitignore", "env", "gitInit">>

\* StepOrder with the removals ahead of the rewrites
StepOrderRemovalsFirst(type) ==
    IF type = "advance"
    THEN <<"copy", "swap", "rmPg", "rmSqlite", "dialect", "index", "schema", "auth",
           "gitignore", "env", "gitInit">>
    ELSE <<"copy", "gitignore", "env", "gitInit">>

\* the order in which main() runs the steps of the try block
StepOrder(type) ==
    IF type = "advance"
    THEN <<"copy", "swap", "dialect", "index", "schema", "auth",
           "rmPg", "rmSqlite", "gitignore", "env", "gitInit">>
    ELSE <<"copy", "gitignore", "env", "gitInit">>

After(step) ==
    LET order == StepOrder(templateType)
        i == CHOOSE k \in 1..Len(order) : order[k] = step
    IN  order[i + 1]

\* FatalExit without process.exit(1): main() goes on after the catch
FatalExitGoesOn ==
    /\ log' = Append(log, "Failed to create project structure")
    /\ pc' = "gitInit"
    /\ UNCHANGED exitCode

\* the outer catch, lines 313-317
FatalExit ==
    /\ Exit1
    /\ log' = Append(log, "Failed to create project structure")

\* PostProcessFailed without the inner try/catch: the outer catch takes it
PostProcessRethrows(step) ==
    /\ CanFault
    /\ faults' = faults \cup {step}
    /\ FatalExit
    /\ UNCHANGED <<target, fsops>>

\* the catch of the advance post-processing, lines 275-277: the error is
\* logged and main() goes on after the block
PostProcessFailed(step) ==
    /\ CanFault
    /\ faults' = faults \cup {step}
    /\ log' = Append(log, "Failed to post-process template for DB selection")
    /\ pc' = "gitignore"
    /\ UNCHANGED <<target, fsops, exitCode>>

Wrote(step, files) ==
    /\ target' = [target EXCEPT !.files = files]
    /\ fsops' = Append(fsops, step)
    /\ pc' = After(step)
    /\ UNCHANGED <<log, faults, exitCode>>

Skipped(step) ==
    /\ pc' = After(step)
    /\ UNCHANGED <<target, fsops, log, faults, exitCode>>

\* BulkCopy that keeps a file the destination already has
BulkCopyNoOverwrite ==
    /\ pc = "copy"
    /\ LET S == CopyFiles(templateType, TemplateDir)
       IN  \/ Wrote("copy", target.files @@ CopyInto(TemplateDir, S, target.files))
           \/ /\ CanFault
              /\ \E W \in SUBSET S :
                    target' = [target EXCEPT !.files = @ @@ CopyInto(TemplateDir, W, @)]
              /\ fsops' = Append(fsops, "copy")
              /\ faults' = faults \cup {"copy"}
              /\ FatalExit
    /\ UNCHANGED <<templates, before, answers, commands>>
    /\ UNCHANGED generated

\* lines 154-168: a failing copy leaves what it had copied so far
BulkCopy ==
    /\ pc = "copy"
    /\ LET S == CopyFiles(templateType, TemplateDir)
       IN  \/ Wrote("copy", CopyInto(TemplateDir, S, target.files))
           \/ /\ CanFault
              /\ \E W \in SUBSET S :
                    target' = [target EXCEPT !.files = CopyInto(TemplateDir, W, @)]
              /\ fsops' = Append(fsops, "copy")
              /\ faults' = faults \cup {"copy"}
              /\ FatalExit
    /\ UNCHANGED <<templates, before, answers, commands>>
    /\ UNCHANGED generated

\* Swap with source and destination the wrong way round
SwapReversed ==
    /\ pc = "swap"
    /\ \/ /\ templates' = [templates EXCEPT ![templateType] =
                CopyIfExists(target.files, AuthSchemaPath, @, SelectedSrcPath(dbChoice))]
          /\ fsops' = Append(fsops, "swap")
          /\ pc' = After("swap")
          /\ UNCHANGED <<target, log, faults, exitCode>>
       \/ PostProcessFailed("swap") /\ UNCHANGED templates
    /\ UNCHANGED <<before, answers, commands>>
    /\ UNCHANGED generated

\* lines 174-189: the selected variant of the template onto auth-schema.ts
Swap ==
    /\ pc = "swap"
    /\ \/ Wrote("swap", CopyIfExists(TemplateDir, SelectedSrcPath(dbChoice),
                                     target.files, AuthSchemaPath))
       \/ PostProcessFailed("swap")
    /\ UNCHANGED <<templates, before, answers, commands>>
    /\ UNCHANGED generated

\* Dialect without the exists() guard: reading the missing file throws
DialectUnguarded ==
    /\ pc = "dialect"
    /\ IF dbChoice = "neon"
       THEN IF IsFile(target.files, DrizzleConfigPath)
            THEN Wrote("dialect", WriteFile(target.files, DrizzleConfigPath,
                                            RewriteDialect(target.files[DrizzleConfigPath])))
            ELSE /\ log' = Append(log, "Failed to post-process template for DB selection")
                 /\ pc' = "gitignore"
                 /\ UNCHANGED <<target, fsops, exitCode, faults>>
       ELSE Skipped("dialect")
    /\ UNCHANGED <<templates, before, answers, commands>>
    /\ UNCHANGED generated

\* lines 192-204
Dialect ==
    /\ pc = "dialect"
    /\ IF dbChoice = "neon" /\ Exists(target.files, DrizzleConfigPath)
          /\ IsFile(target.files, DrizzleConfigPath)
       THEN \/ Wrote("dialect", WriteFile(target.files, DrizzleConfigPath,
                                          RewriteDialect(target.files[DrizzleConfigPath])))
            \/ PostProcessFailed("dialect")
       ELSE Skipped("dialect")
    /\ UNCHANGED <<templates, before, answers, commands>>
    /\ UNCHANGED generated

\* lines 207-217
DrizzleIndex ==
    /\ pc = "index"
    /\ \/ Wrote("index", WriteFile(target.files, DrizzleIndexPath, DrizzleIndexFor(dbChoice)))
       \/ PostProcessFailed("index")
    /\ UNCHANGED <<templates, before, answers, commands>>
    /\ UNCHANGED generated

\* Schema that treats a rewrite without a match as an error
SchemaChecked ==
    /\ pc = "schema"
    /\ IF Exists(target.files, SchemaPath) /\ IsFile(target.files, SchemaPath)
       THEN IF \E i \in DOMAIN target.files[SchemaPath] :
                  target.files[SchemaPath][i] \in SchemaImportPattern
            THEN \/ Wrote("schema", WriteFile(target.files, SchemaPath,
                                              RewriteSchemaImport(target.files[SchemaPath])))
                 \/ PostProcessFailed("schema")
            ELSE /\ log' = Append(log, "Failed to post-process template for DB selection")
                 /\ pc' = "gitignore"
                 /\ UNCHANGED <<target, fsops, exitCode, faults>>
       ELSE Skipped("schema")
    /\ UNCHANGED <<templates, before, answers, commands>>
    /\ UNCHANGED generated

\* lines 220-230
Schema ==
    /\ pc = "schema"
    /\ IF Exists(target.files, SchemaPath) /\ IsFile(target.files, SchemaPath)
       THEN \/ Wrote("schema", WriteFile(target.files, SchemaPath,
                                         RewriteSchemaImport(target.files[SchemaPath])))
            \/ PostProcessFailed("schema")
       ELSE Skipped("schema")
    /\ UNCHANGED <<templates, before, answers, commands>>
    /\ UNCHANGED generated

\* lines 233-250
AuthUtil ==
    /\ pc = "auth"
    /\ IF Exists(target.files, AuthUtilPath) /\ IsFile(target.files, AuthUtilPath)
       THEN \/ Wrote("auth", WriteFile(target.files, AuthUtilPath,
                                       RewriteProvider(dbChoice, target.files[AuthUtilPath])))
            \/ PostProcessFailed("auth")
       ELSE Skipped("auth")
    /\ UNCHANGED <<templates, before, answers, commands>>
    /\ UNCHANGED generated

\* an error of a removal is ignored, lines 265-274
RemoveVariant(step, path) ==
    /\ pc = step
    /\ \/ Wrote(step, RemoveIfExists(target.files, path))
       \/ /\ CanFault
          /\ faults' = faults \cup {step}
          /\ pc' = After(step)
          /\ UNCHANGED <<target, fsops, log, exitCode>>
    /\ UNCHANGED <<templates, before, answers, commands>>
    /\ UNCHANGED generated

RemovePg == RemoveVariant("rmPg", AuthSchemaPgPath)

RemoveSqlite == RemoveVariant("rmSqlite", AuthSchemaSqlitePath)

\* lines 281-285
GitIgnore ==
    /\ pc = "gitignore"
    /\ IF IsFile(TemplateDir, GitIgnoreSeedPath)
       THEN \/ Wrote("gitignore", WriteFile(target.files, GitIgnorePath,
                                            TemplateDir[GitIgnoreSeedPath]))
            \/ /\ CanFault
               /\ faults' = faults \cup {"gitignore"}
               /\ FatalExit
               /\ UNCHANGED <<target, fsops>>
       ELSE Skipped("gitignore")
    /\ UNCHANGED <<templates, before, answers, commands>>
    /\ UNCHANGED generated

\* lines 289-294: the candidates, each a tree and a path in it
EnvExampleCandidates ==
    << <<TemplateDir, EnvExampleTxtPath>>, <<TemplateDir, EnvExamplePath>>,
       <<target.files, EnvExampleTxtPath>>, <<target.files, EnvExamplePath>> >>

EnvFaultNames == <<"env1", "env2", "env3", "env4">>

CandidateExists(i) == IsFile(EnvExampleCandidates[i][1], EnvExampleCandidates[i][2])

CandidateContent(i) == EnvExampleCandidates[i][1][EnvExampleCandidates[i][2]]

Max(S) == CHOOSE x \in S : \A y \in S : x >= y

\* WriteEnv without the break: every candidate is written, the last one stays
WriteEnvLastWins ==
    /\ pc = "env"
    /\ \E F \in SUBSET {i \in 1..4 : CandidateExists(i)} :
          LET ok == {i \in 1..4 : CandidateExists(i) /\ i \notin F}
          IN  /\ Cardinality(F) + Cardinality(faults) <= MaxFaults
              /\ \A i \in F : \A j \in ok : i < j
              /\ faults' = faults \cup {EnvFaultNames[i] : i \in F}
              /\ IF ok = {}
                 THEN UNCHANGED <<target, fsops>>
                 ELSE /\ target' = [target EXCEPT !.files =
                             WriteFile(@, EnvPath,
                                 EnvContent(templateType, dbChoice, CandidateContent(Max(ok))))]
                      /\ fsops' = Append(fsops, "env")
    /\ log' = Append(log, "Project structure created")
    /\ pc' = After("env")
    /\ UNCHANGED <<templates, before, answers, commands, exitCode>>
    /\ UNCHANGED generated

\* lines 295-312: the first candidate that exists and raises no error is
\* written to .env; an error at a candidate is swallowed and the loop goes on
WriteEnv ==
    /\ pc = "env"
    /\ \E F \in SUBSET {i \in 1..4 : CandidateExists(i)} :
          LET ok == {i \in 1..4 : CandidateExists(i) /\ i \notin F}
          IN  /\ Cardinality(F) + Cardinality(faults) <= MaxFaults
              /\ \A i \in F : \A j \in ok : i < j
              /\ faults' = faults \cup {EnvFaultNames[i] : i \in F}
              /\ IF ok = {}
                 THEN UNCHANGED <<target, fsops>>
                 ELSE /\ target' = [target EXCEPT !.files =
                             WriteFile(@, EnvPath,
                                 EnvContent(templateType, dbChoice, CandidateContent(Min(ok))))]
                      /\ fsops' = Append(fsops, "env")
    /\ log' = Append(log, "Project structure created")
    /\ pc' = After("env")
    /\ UNCHANGED <<templates, before, answers, commands, exitCode>>
    /\ UNCHANGED generated

(***************************************************************************)
(* After materialization: lines 319-391                                    *)
(***************************************************************************)
PackageManagers == {"npm", "yarn", "pnpm", "bun"}

\* line 338
InstallCommand(packageManager) == IF packageManager = "yarn" THEN "add" ELSE "install"

\* GitInit whose failure ends the process with exit code 1
GitInitFatal ==
    /\ pc = "gitInit"
    /\ IF Truthy(shouldGitInit)
       THEN /\ commands' = Append(commands, <<"git", "init">>)
            /\ \/ /\ log' = Append(log, "Git repository initialized")
                  /\ pc' = "install"
                  /\ UNCHANGED exitCode
               \/ /\ log' = Append(log, "Failed to initialize git repository")
                  /\ Exit1
       ELSE /\ pc' = "install"
            /\ UNCHANGED <<commands, log, exitCode>>
    /\ UNCHANGED <<disk, answers, fsops, faults>>
    /\ UNCHANGED generated

\* lines 320-329
GitInit ==
    /\ pc = "gitInit"
    /\ IF Truthy(shouldGitInit)
       THEN /\ commands' = Append(commands, <<"git", "init">>)
            /\ \E message \in {"Git repository initialized",
                               "Failed to initialize git repository"} :
                  log' = Append(log, message)
       ELSE UNCHANGED <<commands, log>>
    /\ pc' = "install"
    /\ UNCHANGED <<disk, answers, exitCode, fsops, faults>>
    /\ UNCHANGED generated

\* lines 332-345
Install ==
    /\ pc = "install"
    /\ IF Truthy(shouldInstall)
       THEN /\ \E packageManager \in PackageManagers :
                  commands' = Append(commands, <<packageManager, InstallCommand(packageManager)>>)
            /\ \E message \in {"Dependencies installed", "Failed to install dependencies"} :
                  log' = Append(log, message)
       ELSE UNCHANGED <<commands, log>>
    /\ pc' = "neon"
    /\ UNCHANGED <<disk, answers, exitCode, fsops, faults>>
    /\ UNCHANGED generated

\* SetupNeon guarded by the template type alone
SetupNeonAnyDb ==
    /\ pc = "neon"
    /\ IF templateType = "advance"
       THEN /\ commands' = Append(commands, <<"npx", "neondb", "--yes">>)
            /\ \E message \in {"Neon database created successfully",
                               "'neondb' executable not found",
                               "Neon setup failed"} :
                  log' = Append(log, message)
       ELSE UNCHANGED <<commands, log>>
    /\ pc' = "outro"
    /\ UNCHANGED <<disk, answers, exitCode, fsops, faults>>
    /\ UNCHANGED generated

\* lines 48-77 and 348-359
SetupNeon ==
    /\ pc = "neon"
    /\ IF templateType = "advance" /\ dbChoice = "neon"
       THEN /\ commands' = Append(commands, <<"npx", "neondb", "--yes">>)
            /\ \E message \in {"Neon database created successfully",
                               "'neondb' executable not found",
                               "Neon setup failed"} :
                  log' = Append(log, message)
       ELSE UNCHANGED <<commands, log>>
    /\ pc' = "outro"
    /\ UNCHANGED <<disk, answers, exitCode, fsops, faults>>
    /\ UNCHANGED generated

\* Outro behind a gate: without .env the run ends with exit code 1
OutroGated ==
    /\ pc = "outro"
    /\ IF IsFile(target.files, EnvPath)
       THEN /\ log' = log \o <<"Project created successfully!", "Next steps:">>
            /\ pc' = "halt"
            /\ UNCHANGED exitCode
       ELSE Exit1 /\ UNCHANGED log
    /\ UNCHANGED <<disk, answers, fsops, commands, faults>>
    /\ UNCHANGED generated

\* lines 362-391: main() returns and the process ends with the default code
Outro ==
    /\ pc = "outro"
    /\ log' = log \o <<"Project created successfully!", "Next steps:">>
    /\ pc' = "halt"
    /\ UNCHANGED <<disk, answers, exitCode, fsops, commands, faults>>
    /\ UNCHANGED generated

Next ==
    \/ GetTargetDir
    \/ CheckTarget
    \/ Mkdir
    \/ SelectTemplate
    \/ SelectDb
    \/ ConfirmGit
    \/ ConfirmInstall
    \/ BulkCopy
    \/ Swap
    \/ Dialect
    \/ DrizzleIndex
    \/ Schema
    \/ AuthUtil
    \/ RemovePg
    \/ RemoveSqlite
    \/ GitIgnore
    \/ WriteEnv
    \/ GitInit
    \/ Install
    \/ SetupNeon
    \/ Outro

Spec == Init /\ [][Next]_vars

(***************************************************************************)
(* Properties                                                              *)
(***************************************************************************)
Logged(message) == \E i \in DOMAIN log : log[i] = message

Did(step) == \E i \in DOMAIN fsops : fsops[i] = step

\* the try block of lines 153-312 has reached s.stop("Project structure created")
Materialized == Logged("Project structure created")

\* the names on the paths of a tree
NamesIn(tree) == UNION {{p[i] : i \in DOMAIN p} : p \in DOMAIN tree}

\* the target directory existed with an entry when the run started
HadEntries == before.exists /\ DOMAIN before.files # {}

\* C1: a run on a target directory that exists and has an entry ends with
\* exit code 1 right after the check: the directory is as it was before the
\* run, and no filesystem step, prompt answer or command has happened.
C1_NonEmptyAborts ==
    (HadEntries /\ pc \notin {"start", "check"}) =>
        /\ pc = "halt"
        /\ exitCode = 1
        /\ target = before
        /\ fsops = <<>>
        /\ commands = <<>>
        /\ templateType = "unset"

C1_Witness ==
    /\ HadEntries
    /\ pc = "halt"
    /\ Logged("Aborting: not empty")

\* C2: after an advance materialization without I/O errors, auth-schema.ts
\* in src/drizzle has the content of the template's variant the database
\* selects, and neither suffixed variant is left.
C2_VariantExclusive ==
    (/\ Materialized
     /\ templateType = "advance"
     /\ faults = {}
     /\ IsFile(TemplateDir, IF dbChoice = "neon" THEN AuthSchemaPgPath
                                                 ELSE AuthSchemaSqlitePath)) =>
        /\ IsFile(target.files, AuthSchemaPath)
        /\ target.files[AuthSchemaPath] =
              (IF dbChoice = "neon" THEN TemplateDir[AuthSchemaPgPath]
                                    ELSE TemplateDir[AuthSchemaSqlitePath])
        /\ ~IsFile(target.files, AuthSchemaPgPath)
        /\ ~IsFile(target.files, AuthSchemaSqlitePath)

C2_Witness ==
    /\ Materialized
    /\ templateType = "advance"
    /\ dbChoice = "neon"
    /\ faults = {}
    /\ IsFile(TemplateDir, AuthSchemaPath)
    /\ target.files[AuthSchemaPath] = AuthSchemaPgSrc

\* C3: once the copy has run, no path of the destination has a component
\* named after a lockfile, node_modules, dist or git-ignore.txt.
C3_ExcludedNames ==
    Did("copy") =>
        NamesIn(target.files) \cap (LockfileNames \cup {NodeModules, Dist, GitIgnoreTxt}) = {}

C3_Witness ==
    /\ Materialized
    /\ templateType # "unset"
    /\ NamesIn(TemplateDir) \cap LockfileNames # {}

\* the dialect tokens of a configuration file, in order, by their value
DialectValue(token) == IF token = DialectPostgresql THEN "postgresql" ELSE "sqlite"

IsDialectToken(token) == token \in DialectPattern \cup {DialectPostgresql}

DialectsOf(content) ==
    LET tokens == SelectSeq(content, IsDialectToken)
    IN  [i \in 1..Len(tokens) |-> DialectValue(tokens[i])]

\* C4: for a template whose drizzle.config.ts declares the sqlite dialect, as
\* the shipped one does, an advance materialization without I/O errors leaves
\* the dialect "postgresql" for neon and "sqlite" for SQLite; for SQLite the
\* file is not rewritten and has the template's content.
C4_DialectMatches ==
    (/\ Materialized
     /\ templateType = "advance"
     /\ faults = {}
     /\ IsFile(TemplateDir, DrizzleConfigPath)
     /\ DialectsOf(TemplateDir[DrizzleConfigPath]) = <<"sqlite">>) =>
        /\ IsFile(target.files, DrizzleConfigPath)
        /\ dbChoice = "neon" =>
              DialectsOf(target.files[DrizzleConfigPath]) = <<"postgresql">>
        /\ dbChoice = "sqlite" =>
              /\ DialectsOf(target.files[DrizzleConfigPath]) = <<"sqlite">>
              /\ target.files[DrizzleConfigPath] = TemplateDir[DrizzleConfigPath]
              /\ ~Did("dialect")

C4_Witness ==
    /\ Materialized
    /\ templateType = "advance"
    /\ dbChoice = "neon"
    /\ faults = {}
    /\ IsFile(TemplateDir, DrizzleConfigPath)
    /\ TemplateDir[DrizzleConfigPath] = DrizzleConfigShipped
    /\ Did("dialect")

\* the example the .env of a run without I/O errors is made from
EnvExampleOf(tree) ==
    IF IsFile(tree, EnvExampleTxtPath) THEN tree[EnvExampleTxtPath] ELSE tree[EnvExamplePath]

HasEnvExample(tree) == IsFile(tree, EnvExampleTxtPath) \/ IsFile(tree, EnvExamplePath)

\* a line that begins with DATABASE_URL= in some letter case
StartsWithDatabaseUrl(line) ==
    /\ Len(line) >= 2
    /\ line[1] \in {"DATABASE_URL", "database_url", "Database_Url"}
    /\ line[2] = "="

\* C5: in a run without I/O errors whose template has an env example, the
\* .env of advance/neon has no line starting with DATABASE_URL= in any
\* letter case and keeps every other line of the example at its place; the
\* .env of advance/SQLite and of basic is the example itself.
C5_EnvSeed ==
    (/\ Materialized
     /\ faults = {}
     /\ HasEnvExample(TemplateDir)) =>
        LET example == EnvExampleOf(TemplateDir)
            env == target.files[EnvPath]
        IN  /\ IsFile(target.files, EnvPath)
            /\ (templateType = "advance" /\ dbChoice = "neon") =>
                  /\ Len(env) = Len(example)
                  /\ \A i \in 1..Len(env) :
                        /\ ~StartsWithDatabaseUrl(env[i])
                        /\ ~StartsWithDatabaseUrl(example[i]) => env[i] = example[i]
            /\ ~(templateType = "advance" /\ dbChoice = "neon") => env = example

C5_Witness ==
    /\ Materialized
    /\ faults = {}
    /\ templateType = "advance"
    /\ dbChoice = "neon"
    /\ HasEnvExample(TemplateDir)
    /\ \E i \in DOMAIN EnvExampleOf(TemplateDir) :
          EnvExampleOf(TemplateDir)[i][1] = "database_url"
    /\ IsFile(target.files, EnvPath)

\* every file of the old tree is in the new one, with its content
Keeps(old, new) ==
    \A p \in DOMAIN old.files : p \in DOMAIN new.files /\ new.files[p] = old.files[p]

PostProcessOrder == <<"swap", "dialect", "index", "schema", "auth", "rmPg", "rmSqlite">>

\* C6 as stated: a run in which the bulk copy, the swap, a rewrite, the
\* .gitignore write or the .env write failed ends with exit code 1 and
\* without having completed the materialization.
C6_AnyFailureIsFatal ==
    (/\ pc = "halt"
     /\ faults \cap {"copy", "swap", "dialect", "index", "schema", "auth",
                     "gitignore", "env1", "env2", "env3", "env4"} # {}) =>
        /\ exitCode = 1
        /\ ~Materialized

\* C6 amended: a failure of the bulk copy or of the .gitignore write ends the
\* run with exit code 1, nothing runs after it and the files written so far
\* stay; a failure of the swap or of a rewrite is logged, skips the rest of
\* the advance post-processing and lets the run go on at .gitignore with
\* exit code 0; a failure of a variant removal or of an .env candidate is
\* ignored.
C6_FailurePolicy ==
    /\ [][/\ pc # "halt"
          /\ faults' # faults =>
               LET failed == faults' \ faults
               IN  /\ failed \cap {"copy", "gitignore"} # {} =>
                         /\ pc' = "halt"
                         /\ exitCode' = 1
                         /\ log' = Append(log, "Failed to create project structure")
                         /\ commands' = <<>>
                         /\ Keeps(target, target')
                   /\ failed \cap {"swap", "dialect", "index", "schema", "auth"} # {} =>
                         /\ pc' = "gitignore"
                         /\ exitCode' = 0
                         /\ log' = Append(log, "Failed to post-process template for DB selection")
                         /\ target' = target
                         /\ fsops' = fsops
                   /\ failed \cap {"rmPg", "rmSqlite"} # {} =>
                         /\ pc' \in {"rmSqlite", "gitignore"}
                         /\ exitCode' = 0
                         /\ log' = log
                         /\ target' = target
                   /\ failed \cap {"env1", "env2", "env3", "env4"} # {} =>
                         /\ pc' = "gitInit"
                         /\ exitCode' = 0
                         /\ log' = Append(log, "Project structure created")
         ]_vars
    /\ [](\A s \in {"swap", "dialect", "index", "schema", "auth"} :
            s \in faults =>
               \A j, k \in DOMAIN PostProcessOrder :
                  (PostProcessOrder[k] = s /\ Did(PostProcessOrder[j])) => j < k)

C6_Witness ==
    /\ pc = "halt"
    /\ exitCode = 1
    /\ "gitignore" \in faults
    /\ templateType = "advance"
    /\ Did("index")
    /\ IsFile(target.files, DrizzleIndexPath)

\* C7 as stated: when drizzle.config.ts, src/drizzle/index.ts or
\* src/utils/auth.ts is not in the template, an advance materialization
\* without I/O errors raises no error and leaves no file at that path.
C7_AbsentTargetsStayAbsent ==
    (templateType = "advance" /\ faults = {}) =>
        /\ ~Logged("Failed to post-process template for DB selection")
        /\ ~Logged("Failed to create project structure")
        /\ Materialized =>
              \A p \in {DrizzleConfigPath, DrizzleIndexPath, AuthUtilPath} :
                 ~IsFile(TemplateDir, p) => ~IsFile(target.files, p)

\* C7 amended: when drizzle.config.ts or src/utils/auth.ts is not in the
\* template, an advance materialization without I/O errors raises no error
\* and leaves no file at that path; src/drizzle/index.ts is written whether
\* or not the template has it, so it exists afterwards with the connector
\* of the chosen database.
C7_RewriteTolerance ==
    (templateType = "advance" /\ faults = {}) =>
        /\ ~Logged("Failed to post-process template for DB selection")
        /\ ~Logged("Failed to create project structure")
        /\ Materialized =>
              /\ \A p \in {DrizzleConfigPath, AuthUtilPath} :
                    ~IsFile(TemplateDir, p) => ~IsFile(target.files, p)
              /\ IsFile(target.files, DrizzleIndexPath)
              /\ target.files[DrizzleIndexPath] =
                    (IF dbChoice = "neon" THEN neonDrizzleIndex ELSE sqliteDrizzleIndex)

C7_Witness ==
    /\ Materialized
    /\ templateType = "advance"
    /\ dbChoice = "neon"
    /\ faults = {}
    /\ ~IsFile(TemplateDir, DrizzleConfigPath)
    /\ ~IsFile(target.files, DrizzleConfigPath)

AdvanceOnlySteps == {"swap", "dialect", "index", "schema", "auth", "rmPg", "rmSqlite"}

\* C8 as stated: a basic materialization without I/O errors runs no swap,
\* removal or rewrite, has every template file the copy does not exclude at
\* its path with the template's content, and has no path that the template
\* does not have.
C8_BasicIsMirror ==
    (Materialized /\ templateType = "basic" /\ faults = {}) =>
        /\ \A s \in AdvanceOnlySteps : ~Did(s)
        /\ \A p \in CopyFiles("basic", templates.basic) :
              IsFile(target.files, p) /\ target.files[p] = templates.basic[p]
        /\ DOMAIN target.files \subseteq DOMAIN templates.basic

\* C8 amended: a basic materialization without I/O errors runs no swap,
\* removal or rewrite; apart from .gitignore and .env, which the run writes
\* itself, every template file the copy does not exclude is at its path with
\* the template's content and the destination has no path that the template
\* does not have.
C8_BasicIsMirrorButSeeds ==
    (Materialized /\ templateType = "basic" /\ faults = {}) =>
        /\ \A s \in AdvanceOnlySteps : ~Did(s)
        /\ \A p \in CopyFiles("basic", templates.basic) \ {GitIgnorePath, EnvPath} :
              IsFile(target.files, p) /\ target.files[p] = templates.basic[p]
        /\ DOMAIN target.files \ {GitIgnorePath, EnvPath} \subseteq DOMAIN templates.basic

C8_Witness ==
    /\ Materialized
    /\ templateType = "basic"
    /\ faults = {}
    /\ IsFile(target.files, GitIgnorePath)
    /\ ~IsFile(templates.basic, GitIgnorePath)
    /\ IsFile(target.files, AppIndexPath)

Rewrites  == {"dialect", "index", "schema", "auth"}
Deletions == {"rmPg", "rmSqlite"}

\* C9 as stated: the steps of an advance materialization happen in the order
\* copy, swap, deletions, rewrites, .gitignore, .env: every deletion comes
\* before every rewrite.
C9_DeletionsBeforeRewrites ==
    templateType = "advance" =>
        \A i, j \in DOMAIN fsops :
            (fsops[i] \in Deletions /\ fsops[j] \in Rewrites) => i < j

\* the order C9 amended states
AmendedOrder ==
    <<"mkdir", "copy", "swap", "dialect", "index", "schema", "auth",
      "rmPg", "rmSqlite", "gitignore", "env">>

RankOf(step) == CHOOSE k \in DOMAIN AmendedOrder : AmendedOrder[k] = step

\* C9 amended: the steps of an advance materialization happen one after the
\* other in the order bulk copy, swap onto auth-schema.ts, the rewrites
\* (dialect, connector, schema import, provider), the deletion of the two
\* suffixed variants, .gitignore, .env: no swap or rewrite starts before the
\* copy has completed, and the deletions follow every rewrite.
C9_StepOrder ==
    templateType = "advance" =>
        /\ \A i \in DOMAIN fsops : \E k \in DOMAIN AmendedOrder : AmendedOrder[k] = fsops[i]
        /\ \A i, j \in DOMAIN fsops : i < j => RankOf(fsops[i]) < RankOf(fsops[j])
        /\ (\E i \in DOMAIN fsops : fsops[i] \in AdvanceOnlySteps \cup {"gitignore", "env"}) =>
              /\ Did("copy")
              /\ "copy" \notin faults

C9_Witness ==
    /\ Materialized
    /\ templateType = "advance"
    /\ faults = {}
    /\ fsops = AmendedOrder

\* C10 as stated: the process ends with exit code 1 exactly when the target
\* directory was not empty or creating the project structure failed.
C10_ExitOneIffSetupError ==
    pc = "halt" =>
        (exitCode = 1 <=> (\/ Logged("Aborting: not empty")
                           \/ Logged("Failed to create project structure")
                           \/ "mkdir" \in faults))

\* C10 amended: the process ends with exit code 1 exactly when the target
\* prompt was cancelled or left empty, the target directory was not empty,
\* the template or the database prompt was cancelled, or the bulk copy or
\* the .gitignore write failed; every other run ends with exit code 0, also
\* one whose mkdir of the target failed.  A failing git init or install is
\* logged, leaves the exit code at 0, and the run ends with the success
\* message and the next steps.
C10_ExitCodes ==
    /\ [][(exitCode' = 1) <=>
             \/ pc = "start" /\ pc' = "halt"
             \/ pc = "check" /\ pc' = "halt" /\ target.exists /\ DOMAIN target.files # {}
             \/ pc \in {"selectTemplate", "selectDb"} /\ pc' = "halt"
             \/ pc \in {"copy", "gitignore"} /\ faults' # faults
         ]_vars
    /\ []((Logged("Failed to initialize git repository") \/ Logged("Failed to install dependencies")) =>
            /\ exitCode = 0
            /\ pc = "halt" =>
                  /\ Logged("Project created successfully!")
                  /\ Logged("Next steps:"))
    /\ []((pc = "halt" /\ "mkdir" \in faults) => exitCode = 0)

C10_Witness ==
    /\ pc = "halt"
    /\ exitCode = 0
    /\ Logged("Failed to initialize git repository")
    /\ Logged("Failed to install dependencies")
    /\ Logged("Project created successfully!")

GitInitCommand == <<"git", "init">>
NeonCommand    == <<"npx", "neondb", "--yes">>

\* the place of a command in the order git init, install, neon
CommandRank(command) ==
    IF command = GitInitCommand THEN 1
    ELSE IF command = NeonCommand THEN 3
    ELSE 2

OutcomeMessages ==
    {"Git repository initialized", "Failed to initialize git repository",
     "Dependencies installed", "Failed to install dependencies",
     "Neon database created successfully", "'neondb' executable not found",
     "Neon setup failed"}

\* C11: a command (git init, install, neon) is started only once the
\* materialization has completed and never in a run that failed fatally; the
\* commands are started in the order git init, install, neon, and each has
\* its outcome reported before main() goes on.
C11_CommandsAfterMaterialization ==
    /\ commands # <<>> =>
          /\ Materialized
          /\ ~Logged("Failed to create project structure")
          /\ exitCode = 0
    /\ \A i, j \in DOMAIN commands :
          i < j => CommandRank(commands[i]) < CommandRank(commands[j])
    /\ Len(commands) = Cardinality({i \in DOMAIN log : log[i] \in OutcomeMessages})
    /\ pc \in {"start", "check", "mkdir", "selectTemplate", "selectDb", "confirmGit",
               "confirmInstall", "copy", "swap", "dialect", "index", "schema", "auth",
               "rmPg", "rmSqlite", "gitignore", "env", "gitInit"} => commands = <<>>

C11_Witness ==
    /\ pc = "halt"
    /\ Len(commands) = 3
    /\ commands[1] = GitInitCommand
    /\ commands[3] = NeonCommand
    /\ Logged("Failed to initialize git repository")

\* C12: no step of a run changes the packaged templates; what a run writes,
\* it writes in the target directory.
C12_TemplatesReadOnly == [][templates' = templates]_vars

C12_Witness ==
    /\ Materialized
    /\ templateType = "advance"
    /\ Did("swap")
    /\ Did("rmPg")
    /\ Did("env")
    /\ IsFile(target.files, AuthSchemaPath)
    /\ IsFile(templates.advance, AuthSchemaPgPath)

\* C13: after an advance materialization without I/O errors,
\* src/drizzle/index.ts is the neon connector snippet for neon and the
\* SQLite connector snippet for SQLite, whatever the template had there.
C13_ConnectorSnippet ==
    (Materialized /\ templateType = "advance" /\ faults = {}) =>
        /\ IsFile(target.files, DrizzleIndexPath)
        /\ dbChoice = "neon" => target.files[DrizzleIndexPath] = neonDrizzleIndex
        /\ dbChoice = "sqlite" => target.files[DrizzleIndexPath] = sqliteDrizzleIndex

C13_Witness ==
    /\ Materialized
    /\ templateType = "advance"
    /\ dbChoice = "sqlite"
    /\ faults = {}
    /\ IsFile(TemplateDir, DrizzleIndexPath)
    /\ TemplateDir[DrizzleIndexPath] # sqliteDrizzleIndex
    /\ target.files[DrizzleIndexPath] = sqliteDrizzleIndex

\* the provider tokens of a file, in order
ProvidersOf(content) ==
    LET IsProvider(token) == token \in {ProviderPg, ProviderSqlite, ProviderSqliteBare}
    IN  SelectSeq(content, IsProvider)

\* C14: after an advance materialization without I/O errors of a template
\* whose src/utils/auth.ts has one provider token, the token of the
\* destination's file is provider: "pg" for neon and provider: "sqlite" for
\* SQLite, whichever of the two the template had.
C14_ProviderMatches ==
    (/\ Materialized
     /\ templateType = "advance"
     /\ faults = {}
     /\ IsFile(TemplateDir, AuthUtilPath)
     /\ Len(ProvidersOf(TemplateDir[AuthUtilPath])) = 1) =>
        /\ IsFile(target.files, AuthUtilPath)
        /\ dbChoice = "neon" => ProvidersOf(target.files[AuthUtilPath]) = <<ProviderPg>>
        /\ dbChoice = "sqlite" => ProvidersOf(target.files[AuthUtilPath]) = <<ProviderSqlite>>

C14_Witness ==
    /\ Materialized
    /\ templateType = "advance"
    /\ dbChoice = "sqlite"
    /\ faults = {}
    /\ IsFile(TemplateDir, AuthUtilPath)
    /\ ProvidersOf(TemplateDir[AuthUtilPath]) = <<ProviderPg>>
    /\ ProvidersOf(target.files[AuthUtilPath]) = <<ProviderSqlite>>

Ran(command) == \E i \in DOMAIN commands : commands[i] = command

\* C15: in a basic run the database prompt is never reached, the choice
\* stays at its default, no advance-only step and no neon provisioning runs,
\* and the .env written is what the example gives for either database value.
C15_BasicIgnoresDatabase ==
    templateType = "basic" =>
        /\ pc # "selectDb"
        /\ dbChoice = "sqlite"
        /\ ~Ran(NeonCommand)
        /\ \A s \in AdvanceOnlySteps : ~Did(s)
        /\ (Did("env") /\ faults = {}) =>
              \A db \in {"sqlite", "neon"} :
                 target.files[EnvPath] = EnvContent("basic", db, EnvExampleOf(templates.basic))

C15_Witness ==
    /\ templateType = "basic"
    /\ pc = "halt"
    /\ Materialized
    /\ faults = {}
    /\ Did("env")
    /\ \E i \in DOMAIN target.files[EnvPath] : StartsWithDatabaseUrl(target.files[EnvPath][i])
    /\ commands # <<>>

\* C16: once a run has materialized a template that has git-ignore.txt, the
\* destination's .gitignore has that file's content, for either template
\* type and database, and no git-ignore.txt is in the destination.
C16_GitIgnoreFromSeed ==
    (Materialized /\ IsFile(TemplateDir, GitIgnoreSeedPath)) =>
        /\ IsFile(target.files, GitIgnorePath)
        /\ target.files[GitIgnorePath] = TemplateDir[GitIgnoreSeedPath]
        /\ GitIgnoreTxt \notin NamesIn(target.files)

C16_Witness ==
    /\ Materialized
    /\ templateType = "advance"
    /\ dbChoice = "neon"
    /\ IsFile(TemplateDir, GitIgnoreSeedPath)
    /\ IsFile(TemplateDir, GitIgnorePath)
    /\ TemplateDir[GitIgnorePath] # TemplateDir[GitIgnoreSeedPath]
    /\ target.files[GitIgnorePath] = GitIgnoreSeed

\* the checks of the validation step C17 describes that the destination fails
ViolatedChecks ==
    (IF /\ IsFile(target.files, AuthSchemaPath)
        /\ ~IsFile(target.files, AuthSchemaPgPath)
        /\ ~IsFile(target.files, AuthSchemaSqlitePath)
     THEN {} ELSE {"auth-schema"})
    \cup
    (IF /\ IsFile(target.files, DrizzleConfigPath)
        /\ DialectsOf(target.files[DrizzleConfigPath]) =
              <<IF dbChoice = "neon" THEN "postgresql" ELSE "sqlite">>
     THEN {} ELSE {"dialect"})
    \cup
    (IF IsFile(target.files, EnvPath) THEN {} ELSE {"env"})

\* the messages main() can show
KnownMessages ==
    OutcomeMessages \cup
    {"Aborting: not empty", "uncaught", "Failed to create project structure",
     "Failed to post-process template for DB selection", "Project structure created",
     "Project created successfully!", "Next steps:"}

C18_NeonBestEffort ==
    /\ [](Ran(NeonCommand) =>
            /\ templateType = "advance"
            /\ dbChoice = "neon"
            /\ Materialized)
    /\ [][pc = "neon" =>
            /\ target' = target
            /\ templates' = templates
            /\ exitCode' = exitCode
            /\ pc' = "outro"
         ]_vars
    /\ []((pc = "halt" /\ Ran(NeonCommand)) =>
            /\ exitCode = 0
            /\ Logged("Project created successfully!"))

C18_Witness ==
    /\ pc = "halt"
    /\ Ran(NeonCommand)
    /\ Logged("'neondb' executable not found")
    /\ Logged("Project created successfully!")
    /\ exitCode = 0

\* C19: git init has run only if the git prompt was answered yes, and the
\* install has run only if the install prompt was answered yes.
C19_CommandsOnlyOnYes ==
    /\ Ran(GitInitCommand) => shouldGitInit = "yes"
    /\ (\E i \in DOMAIN commands : commands[i][1] \in PackageManagers) => shouldInstall = "yes"

\* the template files C20 allows the bulk copy to leave out
AllowedLeftOut(tree) ==
    {p \in DOMAIN tree :
        \E i \in DOMAIN p : p[i] \in LockfileNames \cup {NodeModules, Dist, GitIgnoreTxt}}

\* C20: right after a bulk copy that succeeded, every template file that is
\* not a lockfile, not below node_modules or dist and not git-ignore.txt is
\* in the destination.
C20_OnlyLockfilesLeftOut ==
    (/\ fsops # <<>>
     /\ fsops[Len(fsops)] = "copy"
     /\ "copy" \notin faults) =>
        \A p \in DOMAIN TemplateDir \ AllowedLeftOut(TemplateDir) : IsFile(target.files, p)

NoMatch(content, pattern) == \A i \in DOMAIN content : content[i] \notin pattern

\* the files the advance post-processing rewrites: path, pattern, step
RewriteTargets ==
    {<<DrizzleConfigPath, DialectPattern, "dialect">>,
     <<SchemaPath, SchemaImportPattern, "schema">>,
     <<AuthUtilPath, ProviderPattern, "auth">>}

\* C21: after an advance materialization, a rewrite target the template has
\* and whose content has no match for the rewrite's pattern is in the
\* destination with the template's content; without I/O errors its rewrite
\* step was carried out (for the dialect, when the database is neon), no
\* failure was logged and the exit code is 0.
C21_NoMatchIsSilent ==
    (Materialized /\ templateType = "advance") =>
        \A r \in RewriteTargets :
            (IsFile(TemplateDir, r[1]) /\ NoMatch(TemplateDir[r[1]], r[2])) =>
                /\ IsFile(target.files, r[1])
                /\ target.files[r[1]] = TemplateDir[r[1]]
                /\ faults = {} =>
                      /\ (r[3] # "dialect" \/ dbChoice = "neon") => Did(r[3])
                      /\ ~Logged("Failed to post-process template for DB selection")
                      /\ ~Logged("Failed to create project structure")
                      /\ exitCode = 0

C21_Witness ==
    /\ pc = "halt"
    /\ Materialized
    /\ templateType = "advance"
    /\ dbChoice = "neon"
    /\ faults = {}
    /\ IsFile(TemplateDir, DrizzleConfigPath)
    /\ NoMatch(TemplateDir[DrizzleConfigPath], DialectPattern \cup {DialectPostgresql})
    /\ Did("dialect")
    /\ target.files[DrizzleConfigPath] = TemplateDir[DrizzleConfigPath]

\* the env example candidates in their priority order, as the finished run
\* shows them: two of the template, two of the destination
ExamplesInOrder ==
    << <<TemplateDir, EnvExampleTxtPath>>, <<TemplateDir, EnvExamplePath>>,
       <<target.files, EnvExampleTxtPath>>, <<target.files, EnvExamplePath>> >>

ExamplesPresent == {i \in 1..4 : ExamplesInOrder[i][2] \in DOMAIN ExamplesInOrder[i][1]}

\* C23: after a materialization without I/O errors the destination has .env
\* exactly if one of the four env examples exists; .env is written at most
\* once, exactly if an example exists, and its content is made from the
\* first example that exists in the order template/env.example.txt,
\* template/env.example, destination/env.example.txt, destination/env.example.
C23_EnvFromFirstCandidate ==
    (Materialized /\ faults = {}) =>
        /\ IsFile(target.files, EnvPath) <=> ExamplesPresent # {}
        /\ Did("env") <=> ExamplesPresent # {}
        /\ Cardinality({i \in DOMAIN fsops : fsops[i] = "env"}) <= 1
        /\ ExamplesPresent # {} =>
              LET first == ExamplesInOrder[Min(ExamplesPresent)]
              IN  target.files[EnvPath] =
                     (IF templateType = "advance" /\ dbChoice = "neon"
                      THEN StripDatabaseUrl(first[1][first[2]])
                      ELSE first[1][first[2]])

C23_Witness ==
    /\ Materialized
    /\ faults = {}
    /\ IsFile(TemplateDir, EnvExampleTxtPath)
    /\ IsFile(TemplateDir, EnvExamplePath)
    /\ TemplateDir[EnvExampleTxtPath] # TemplateDir[EnvExamplePath]
    /\ IsFile(target.files, EnvExamplePath)
    /\ target.files[EnvPath] = TemplateDir[EnvExampleTxtPath]

\* C24: after an advance materialization, schema.ts of the destination has
\* no import of a suffixed auth-schema variant that is not in the
\* destination.
C24_NoDanglingVariantImport ==
    (Materialized /\ templateType = "advance" /\ IsFile(target.files, SchemaPath)) =>
        \A i \in DOMAIN target.files[SchemaPath] :
            /\ target.files[SchemaPath][i] = ImportAuthSchemaSqlite =>
                  IsFile(target.files, AuthSchemaSqlitePath)
            /\ target.files[SchemaPath][i] = ImportAuthSchemaPg =>
                  IsFile(target.files, AuthSchemaPgPath)

\* C25: a step that ends the run from the template prompt or from the
\* database prompt ends it with exit code 1 and with the target directory
\* as it was before the run, no filesystem step having been carried out.
C25_CancelLeavesNoTrace ==
    [][(pc \in {"selectTemplate", "selectDb"} /\ pc' = "halt") =>
          /\ exitCode' = 1
          /\ target' = before
          /\ fsops' = <<>>
      ]_vars

\* C26: every package manager command the install step has run is the
\* manager's install subcommand.
C26_InstallSubcommand ==
    \A i \in DOMAIN commands :
        commands[i][1] \in PackageManagers => commands[i] = <<commands[i][1], "install">>

(***************************************************************************)
(* main() next to another process that creates entries in the target      *)
(* directory                                                               *)
(***************************************************************************)
ExternalContent == <<"external">>

\* the paths the other process may create: one the templates do not have,
\* one the basic template has
ExternalPaths == {<< <<"notes", ".txt">> >>, PackageJsonPath}

\* the other process creates a file (and the directory with it) while the
\* CLI is between two steps
ExternalProcess ==
    /\ pc # "halt"
    /\ \E p \in ExternalPaths :
          /\ p \notin DOMAIN target.files
          /\ target' = [exists |-> TRUE, files |-> WriteFile(target.files, p, ExternalContent)]
    /\ UNCHANGED <<pc, templates, before, answers, exitCode, fsops, commands, log, faults>>
    /\ UNCHANGED generated

NextRace ==
    \/ GetTargetDir
    \/ CheckTarget
    \/ Mkdir
    \/ SelectTemplate
    \/ SelectDb
    \/ ConfirmGit
    \/ ConfirmInstall
    \/ BulkCopy
    \/ Swap
    \/ Dialect
    \/ DrizzleIndex
    \/ Schema
    \/ AuthUtil
    \/ RemovePg
    \/ RemoveSqlite
    \/ GitIgnore
    \/ WriteEnv
    \/ GitInit
    \/ Install
    \/ SetupNeon
    \/ Outro
    \/ ExternalProcess

SpecRace == Init /\ [][NextRace]_vars

\* C22 as stated: whatever another process does between the steps of the
\* CLI, the target directory has no entry when the bulk copy begins.
C22_CopyStartsOnEmptyTarget ==
    [][(pc = "copy" /\ fsops' # fsops) => Readdir(target.files, <<>>) = {}]_vars

\* C22 amended: the target directory is checked for entries once, before
\* the directory is created and the prompts are shown: it has no entry when
\* the check passes, and every entry it has between the check and the bulk
\* copy was created by the other process after the check.  The copy starts
\* all the same: it writes the template's files over those entries that
\* have the path of a copied template file and keeps the others.
C22_CheckedOnceThenMerged ==
    /\ [][(pc = "check" /\ pc' = "mkdir") => Readdir(target.files, <<>>) = {}]_vars
    /\ [](pc \in {"mkdir", "selectTemplate", "selectDb", "confirmGit", "confirmInstall", "copy"} =>
            \A p \in DOMAIN target.files :
               p \in ExternalPaths /\ target.files[p] = ExternalContent)
    /\ [][(pc = "copy" /\ pc' \notin {"copy", "halt"}) =>
            /\ fsops' = Append(fsops, "copy")
            /\ \A p \in DOMAIN target.files :
                  /\ p \in DOMAIN target'.files
                  /\ target'.files[p] =
                        (IF p \in CopyFiles(templateType, TemplateDir)
                         THEN TemplateDir[p] ELSE target.files[p])
         ]_vars

C22_Witness ==
    /\ Materialized
    /\ templateType = "basic"
    /\ fsops = <<"mkdir", "copy", "gitignore", "env">>
    /\ ExternalPaths \subseteq DOMAIN target.files
    /\ target.files[PackageJsonPath] = TemplateDir[PackageJsonPath]
    /\ \E p \in ExternalPaths : target.files[p] = ExternalContent

(***************************************************************************)
(* The generated advance application: ValkeyGlideStore (services/valkey.ts).*)
(* The client holds one key; each method of the store is one step.         *)
(***************************************************************************)
\* at most this many commands are sent to the client before a run stops
MaxCommands == 4

\* the CLI is not running
CliIdle ==
    /\ pc = "start"
    /\ templates = [basic |-> MkBasic(ShippedFeatures), advance |-> MkAdvance(ShippedFeatures)]
    /\ target = [exists |-> FALSE, files |-> EmptyTree]
    /\ before = target
    /\ templateType = "unset"
    /\ dbChoice = "sqlite"
    /\ shouldGitInit = "unset"
    /\ shouldInstall = "unset"
    /\ exitCode = 0
    /\ fsops = <<>>
    /\ commands = <<>>
    /\ log = <<>>
    /\ faults = {}

\* what the key holds: nothing, an envelope the schema accepts, something
\* else, or a counter made by incrby
ClientData == {"absent", "valid", "corrupt", "counter"}

\* what a step of the store leaves alone
notStore == <<cli, authVars, rateVars, cacheVars>>

InitStore ==
    /\ CliIdle
    /\ AuthIdle
    /\ RateIdle
    /\ CacheIdle
    /\ closed = FALSE
    /\ client \in [data : ClientData, sent : {<<>>}, quit : {FALSE}]
    /\ outcome = [op |-> "none", result |-> "none"]

MayCall == Len(client.sent) < MaxCommands

\* a method of the client is called with these commands; a client that has
\* quit rejects the first of them
Call(names, data) ==
    IF client.quit
    THEN [client EXCEPT !.sent = Append(@, names[1])]
    ELSE [client EXCEPT !.sent = @ \o names, !.data = data]

Ended(op, result) == outcome' = [op |-> op, result |-> result]

Threw(op) == Ended(op, "store closed") /\ UNCHANGED client

\* the client calls of get(), lines 154-181, with the defaults
\* deleteCorrupt = true and throwOnParse = false
GetCalls == IF client.data \in {"corrupt", "counter"} THEN <<"get", "del">> ELSE <<"get">>

GetData == IF client.data = "valid" THEN "valid" ELSE "absent"

\* lines 121-146; defaultTTL is null or a number
StoreSet ==
    /\ MayCall
    /\ \E valid \in BOOLEAN, ttl \in {"null", "seconds"} :
          IF closed THEN Threw("set")
          ELSE IF ~valid THEN Ended("set", "parse error") /\ UNCHANGED client
          ELSE /\ client' = Call(IF ttl = "null" THEN <<"set">> ELSE <<"set", "expire">>, "valid")
               /\ Ended("set", IF client.quit THEN "client error" ELSE "true")
    /\ UNCHANGED <<notStore, closed>>

\* lines 148-186
StoreGet ==
    /\ MayCall
    /\ IF closed THEN Threw("get")
       ELSE /\ client' = Call(GetCalls, GetData)
            /\ Ended("get", IF client.quit THEN "client error"
                            ELSE IF client.data = "valid" THEN "value" ELSE "null")
    /\ UNCHANGED <<notStore, closed>>

\* lines 188-190
StoreDel ==
    /\ MayCall
    /\ client' = Call(<<"del">>, "absent")
    /\ Ended("del", IF client.quit THEN "client error" ELSE "ok")
    /\ UNCHANGED <<notStore, closed>>

\* lines 192-213: SET with NX and expiry, or SETNX and EXPIRE when there is
\* no ttl or the SET throws
StoreSetIfAbsent ==
    /\ MayCall
    /\ \E valid \in BOOLEAN, ttl \in {"null", "seconds"}, setThrows \in BOOLEAN :
          IF ~valid THEN Ended("setIfAbsent", "parse error") /\ UNCHANGED client
          ELSE IF client.quit
          THEN /\ client' = [client EXCEPT !.sent =
                                @ \o (IF ttl = "null" THEN <<"setnx">> ELSE <<"set", "setnx">>)]
               /\ Ended("setIfAbsent", "client error")
          ELSE LET absent == client.data = "absent"
                   names == IF ttl = "null" THEN <<"setnx">>
                            ELSE IF ~setThrows THEN <<"set">>
                            ELSE IF absent THEN <<"set", "setnx", "expire">>
                            ELSE <<"set", "setnx">>
               IN  /\ client' = Call(names, IF absent THEN "valid" ELSE client.data)
                   /\ Ended("setIfAbsent", IF absent THEN "true" ELSE "false")
    /\ UNCHANGED <<notStore, closed>>

\* lines 215-221: get(), then the factory and set() on a miss
StoreGetOrSet ==
    /\ MayCall
    /\ \E valid \in BOOLEAN, ttl \in {"null", "seconds"} :
          IF closed THEN Threw("getOrSet")
          ELSE IF client.quit
          THEN client' = Call(<<"get">>, client.data) /\ Ended("getOrSet", "client error")
          ELSE IF client.data = "valid"
          THEN client' = Call(<<"get">>, "valid") /\ Ended("getOrSet", "value")
          ELSE IF ~valid
          THEN client' = Call(GetCalls, "absent") /\ Ended("getOrSet", "parse error")
          ELSE /\ client' = Call(GetCalls \o (IF ttl = "null" THEN <<"set">>
                                              ELSE <<"set", "expire">>), "valid")
               /\ Ended("getOrSet", "value")
    /\ UNCHANGED <<notStore, closed>>

\* lines 223-225
StoreTtl ==
    /\ MayCall
    /\ client' = Call(<<"ttl">>, client.data)
    /\ Ended("ttl", IF client.quit THEN "client error" ELSE "ok")
    /\ UNCHANGED <<notStore, closed>>

\* lines 227-235: INCRBY makes a counter of a missing key and is rejected
\* on a value that is not a number
StoreIncrBy ==
    /\ MayCall
    /\ client' = Call(<<"incrby">>, IF client.data \in {"absent", "counter"}
                                    THEN "counter" ELSE client.data)
    /\ Ended("incrBy", IF client.quit \/ client.data \in {"valid", "corrupt"}
                       THEN "client error" ELSE "ok")
    /\ UNCHANGED <<notStore, closed>>

\* lines 237-244
StoreExpire ==
    /\ MayCall
    /\ client' = Call(<<"expire">>, client.data)
    /\ Ended("expire", IF client.quit THEN "client error" ELSE "ok")
    /\ UNCHANGED <<notStore, closed>>

\* lines 257-264
StoreClose ==
    /\ IF closed
       THEN Ended("close", "nothing") /\ UNCHANGED <<closed, client>>
       ELSE /\ closed' = TRUE
            /\ client' = [client EXCEPT !.sent = @ \o <<"quit", "close">>, !.quit = TRUE]
            /\ Ended("close", "ok")
    /\ UNCHANGED notStore

NextStore ==
    \/ StoreSet
    \/ StoreGet
    \/ StoreDel
    \/ StoreSetIfAbsent
    \/ StoreGetOrSet
    \/ StoreTtl
    \/ StoreIncrBy
    \/ StoreExpire
    \/ StoreClose

SpecStore == InitStore /\ [][NextStore]_vars

\* C30: once the store is closed, a step sends nothing to the client, and
\* an operation other than close ends with the error 'store closed'.
C30_ClosedStoreRefuses ==
    [][closed =>
          /\ client' = client
          /\ outcome' # outcome => (outcome'.op = "close" \/ outcome'.result = "store closed")
      ]_vars

(***************************************************************************)
(* The generated advance application: the auth wrappers                    *)
(* (middlewares/auth.middleware.ts).  One request at a time goes through   *)
(* the wrapper of its route.                                               *)
(***************************************************************************)
\* at most this many requests are served in a run
MaxAuthRequests == 2

\* attachAuth alone and withAuth(handler, {required: false}) do not protect
Wrappers == {"attachAuth", "requireAuth", "withRequiredAuth", "withAuth", "withAuthOptional"}

notAuth == <<cli, storeVars, rateVars, cacheVars>>

InitAuth ==
    /\ CliIdle
    /\ StoreIdle
    /\ RateIdle
    /\ CacheIdle
    /\ AuthIdle

\* a request arrives on a route
AuthRequest ==
    /\ authPc = "idle"
    /\ Len(authLog) < MaxAuthRequests
    /\ wrapper' \in Wrappers
    /\ authPc' = "getSession"
    /\ lookup' = "none"
    /\ reqAuth' = "undefined"
    /\ res' = 0
    /\ handlerCalls' = 0
    /\ UNCHANGED <<notAuth, authLog>>

\* attachAuth, lines 15-29: the session, or null when there is none or the
\* lookup throws; then next()
AttachAuth ==
    /\ authPc = "getSession"
    /\ lookup' \in {"session", "null", "throws"}
    /\ reqAuth' = IF lookup' = "session" THEN "session" ELSE "null"
    /\ authPc' = "callback"
    /\ UNCHANGED <<notAuth, wrapper, res, handlerCalls, authLog>>

\* the wrappers' test `!authCtx?.session`
NoSession == reqAuth # "session"

\* AuthCallback that tests req.auth in place of req.auth.session
AuthCallbackTestsContext ==
    /\ authPc = "callback"
    /\ IF wrapper \in {"requireAuth", "withRequiredAuth", "withAuth"} /\ reqAuth = "undefined"
       THEN res' = 401 /\ UNCHANGED handlerCalls
       ELSE handlerCalls' = handlerCalls + 1 /\ UNCHANGED res
    /\ authPc' = "done"
    /\ UNCHANGED <<notAuth, wrapper, lookup, reqAuth, authLog>>

\* the callback given to attachAuth, lines 41-49, 59-67 and 79-87: 401, or
\* on to the handler (requireAuth: next(), which is the route's handler)
AuthCallback ==
    /\ authPc = "callback"
    /\ IF wrapper \in {"requireAuth", "withRequiredAuth", "withAuth"} /\ NoSession
       THEN res' = 401 /\ UNCHANGED handlerCalls
       ELSE handlerCalls' = handlerCalls + 1 /\ UNCHANGED res
    /\ authPc' = "done"
    /\ UNCHANGED <<notAuth, wrapper, lookup, reqAuth, authLog>>

\* the request is over
AuthDone ==
    /\ authPc = "done"
    /\ authLog' = Append(authLog, [wrapper |-> wrapper, lookup |-> lookup,
                                   status |-> res, handler |-> handlerCalls])
    /\ authPc' = "idle"
    /\ UNCHANGED <<notAuth, wrapper, lookup, reqAuth, res, handlerCalls>>

NextAuth ==
    \/ AuthRequest
    \/ AttachAuth
    \/ AuthCallback
    \/ AuthDone

SpecAuth == InitAuth /\ [][NextAuth]_vars

Protecting == {"requireAuth", "withRequiredAuth", "withAuth"}

\* C28: a request through requireAuth, withRequiredAuth or withAuth reaches
\* the handler only after a lookup that returned a session, gets 401 only
\* after a lookup that returned null or threw, never both, and once it is
\* over exactly one of the two has happened, the handler having been
\* invoked once.
C28_HandlerOnlyWithSession ==
    /\ wrapper \in Protecting =>
          /\ handlerCalls > 0 => lookup = "session"
          /\ res # 0 => (res = 401 /\ lookup \in {"null", "throws"})
          /\ ~(handlerCalls > 0 /\ res # 0)
          /\ authPc = "done" => (handlerCalls = 1 \/ res = 401)
    /\ \A i \in DOMAIN authLog :
          authLog[i].wrapper \in Protecting =>
             IF authLog[i].lookup = "session"
             THEN authLog[i].handler = 1 /\ authLog[i].status = 0
             ELSE authLog[i].handler = 0 /\ authLog[i].status = 401

C28_Witness ==
    /\ Len(authLog) = 1
    /\ authLog[1].wrapper = "requireAuth"
    /\ authLog[1].lookup = "session"
    /\ authLog[1].handler = 1
    /\ authPc = "done"
    /\ wrapper = "withRequiredAuth"
    /\ lookup = "throws"
    /\ res = 401
    /\ handlerCalls = 0

(***************************************************************************)
(* The generated advance application: spamProtection                       *)
(* (middlewares/rateLimit.middleware.ts).  The handler awaits only in its  *)
(* Valkey part; the in-memory part runs without interruption.              *)
(***************************************************************************)
\* the fallback handles at most this many requests with key "a" ...
MaxRequests == 21
\* ... and at most this many with key "b"
MaxOtherRequests == 1

spamWindowSeconds == 5

spamThreshold == IF nodeEnv = "production" THEN 5 ELSE 20

\* the instants at which requests arrive: the start, the last millisecond
\* of a window that began at the start, the first one after it, and the
\* first one at which the cleanup removes an entry made at the start
Instants ==
    {0, spamWindowSeconds * 1000, spamWindowSeconds * 1000 + 1,
     spamWindowSeconds * 6 * 1000 + 1}

notRate == <<cli, storeVars, authVars, cacheVars>>

InitRate ==
    /\ CliIdle
    /\ StoreIdle
    /\ AuthIdle
    /\ CacheIdle
    /\ nodeEnv \in {"production", "development"}
    /\ rateLimitStore \in {"null", "store"}
    /\ now = 0
    /\ spamStore = [k \in {} |-> 0]
    /\ cleanupScheduled = FALSE
    /\ arrivals = [k \in RateKeys |-> <<>>]
    /\ lastReply = [key |-> "none", valkey |-> "none", via |-> "none", status |-> 0]

\* time passes
Tick ==
    /\ now' \in {t \in Instants : t > now}
    /\ UNCHANGED <<notRate, nodeEnv, rateLimitStore, spamStore, cleanupScheduled,
                   arrivals, lastReply>>

MayArrive(key) ==
    Len(arrivals[key]) < (IF key = "a" THEN MaxRequests ELSE MaxOtherRequests)

\* Counted with a window that ends before its last millisecond
CountedOpenWindow(key) ==
    IF key \notin DOMAIN spamStore
    THEN [count |-> 1, firstTs |-> now]
    ELSE IF now - spamStore[key].firstTs < spamWindowSeconds * 1000
    THEN [count |-> spamStore[key].count + 1, firstTs |-> spamStore[key].firstTs]
    ELSE [count |-> 1, firstTs |-> now]

\* lines 64-77: the entry of the key after this request
Counted(key) ==
    IF key \notin DOMAIN spamStore
    THEN [count |-> 1, firstTs |-> now]
    ELSE IF now - spamStore[key].firstTs <= spamWindowSeconds * 1000
    THEN [count |-> spamStore[key].count + 1, firstTs |-> spamStore[key].firstTs]
    ELSE [count |-> 1, firstTs |-> now]

\* lines 59-99
Fallback(key, valkey) ==
    /\ MayArrive(key)
    /\ spamStore' = (key :> Counted(key)) @@ spamStore
    /\ cleanupScheduled' = (cleanupScheduled \/ key \in DOMAIN spamStore)
    /\ arrivals' = [arrivals EXCEPT ![key] = Append(@, now)]
    /\ lastReply' = [key |-> key, valkey |-> valkey, via |-> "memory",
                     status |-> IF key \in DOMAIN spamStore /\ Counted(key).count > spamThreshold
                                THEN 429 ELSE 200]

\* lines 29-103.  The counter of the Valkey store is shared with whoever
\* else uses the store, so incrBy returns a number at or above the threshold
\* as the store has it; a throwing incrBy, ttl or expire leads to the fallback.
SpamProtection ==
    /\ \E key \in RateKeys :
          IF rateLimitStore = "null"
          THEN Fallback(key, "null")
          ELSE \/ /\ \E current \in {spamThreshold, spamThreshold + 1} :
                        lastReply' = [key |-> key, valkey |-> "ok", via |-> "valkey",
                                      status |-> IF current > spamThreshold THEN 429 ELSE 200]
                  /\ UNCHANGED <<spamStore, cleanupScheduled, arrivals>>
               \/ Fallback(key, "throws")
    /\ UNCHANGED <<notRate, nodeEnv, rateLimitStore, now>>

\* lines 82-89: the interval removes the entries older than six windows
Cleanup ==
    /\ cleanupScheduled
    /\ \E k \in DOMAIN spamStore : now - spamStore[k].firstTs > spamWindowSeconds * 6 * 1000
    /\ spamStore' = [k \in {j \in DOMAIN spamStore :
                               now - spamStore[j].firstTs <= spamWindowSeconds * 6 * 1000}
                       |-> spamStore[k]]
    /\ UNCHANGED <<notRate, nodeEnv, rateLimitStore, now, cleanupScheduled, arrivals, lastReply>>

NextRate ==
    \/ Tick
    \/ SpamProtection
    \/ Cleanup

SpecRate == InitRate /\ [][NextRate]_vars

\* the window a sequence of arrival times ends in: the first arrival opens
\* a window; an arrival more than 5 seconds after the first one of the
\* window opens the next window
RECURSIVE WindowOf(_)
WindowOf(times) ==
    IF Len(times) = 1
    THEN [first |-> times[1], requests |-> 1]
    ELSE LET earlier == WindowOf(SubSeq(times, 1, Len(times) - 1))
             t == times[Len(times)]
         IN  IF t - earlier.first > 5000
             THEN [first |-> t, requests |-> 1]
             ELSE [first |-> earlier.first, requests |-> earlier.requests + 1]

\* C29: a request the in-memory fallback handled is answered 429 exactly
\* if, this one included, more than the threshold (5 in production, 20
\* otherwise) of the requests with its key that the fallback handled arrived
\* within 5 seconds of the first request of the current window; a request
\* that opens a window is passed on; and a request whose Valkey check threw
\* is decided by the fallback.
C29_FallbackWindow ==
    /\ lastReply.valkey \in {"null", "throws"} => lastReply.via = "memory"
    /\ lastReply.via = "memory" =>
          LET window == WindowOf(arrivals[lastReply.key])
              threshold == IF nodeEnv = "production" THEN 5 ELSE 20
          IN  /\ lastReply.status \in {200, 429}
              /\ lastReply.status = 429 <=> window.requests > threshold
              /\ window.requests = 1 => lastReply.status = 200
              /\ lastReply.key \in DOMAIN spamStore =>
                    spamStore[lastReply.key] = [count |-> window.requests, firstTs |-> window.first]

C29_Witness ==
    /\ nodeEnv = "development"
    /\ lastReply = [key |-> "a", valkey |-> "throws", via |-> "memory", status |-> 429]
    /\ now = 5000
    /\ Len(arrivals["a"]) = 21
    /\ arrivals["a"][20] = 0
    /\ Len(arrivals["b"]) = 1

(***************************************************************************)
(* The generated advance application: userController.getUser, updateUser   *)
(* and deleteUser for one user id.  A handler runs up to its next await;   *)
(* the awaited database or cache operation takes effect, and the handler   *)
(* goes on in a later step, with other handlers in between.                *)
(***************************************************************************)
MaxUserRequests == 3

notCache == <<cli, storeVars, authVars, rateVars>>

InitCache ==
    /\ CliIdle
    /\ StoreIdle
    /\ AuthIdle
    /\ RateIdle
    /\ users \in [exists : BOOLEAN, version : {1}]
    /\ userStore = 0
    /\ requests = <<>>
    /\ acked = [version |-> 0, deleted |-> FALSE]

At(i, kind, at) ==
    /\ i \in DOMAIN requests
    /\ requests[i].kind = kind
    /\ requests[i].pc = at

Goto(i, fields) == requests' = [requests EXCEPT ![i] = fields @@ @]

\* sendSuccess, sendError or res.status(204).send()
Reply(i, status, via, body) ==
    Goto(i, [pc |-> "done", status |-> status, via |-> via, body |-> body])

\* a request arrives; updateUser answers an empty body at once
StartRequest ==
    /\ Len(requests) < MaxUserRequests
    /\ \E kind \in {"getUser", "updateUser", "deleteUser"}, emptyBody \in BOOLEAN :
          /\ emptyBody => kind = "updateUser"
          /\ requests' = Append(requests,
                [kind |-> kind,
                 pc |-> IF emptyBody THEN "done"
                        ELSE IF kind = "getUser" THEN "cacheGet" ELSE "select",
                 row |-> 0,
                 acked |-> acked,
                 status |-> IF emptyBody THEN 400 ELSE 0,
                 via |-> "none",
                 body |-> 0])
    /\ UNCHANGED <<notCache, users, userStore, acked>>

\* part_004:69: await userStore.get(id)
GetUserCacheGet ==
    /\ \E i \in DOMAIN requests, ok \in BOOLEAN :
          /\ At(i, "getUser", "cacheGet")
          /\ IF ok
             THEN Goto(i, [pc |-> "afterCacheGet", row |-> userStore])
             ELSE Reply(i, 400, "none", 0)
    /\ UNCHANGED <<notCache, users, userStore, acked>>

\* part_004:70-100: the cache hit is answered; a miss selects the row
GetUserSelect ==
    /\ \E i \in DOMAIN requests, ok \in BOOLEAN :
          /\ At(i, "getUser", "afterCacheGet")
          /\ IF requests[i].row # 0
             THEN Reply(i, 200, "cache", requests[i].row)
             ELSE IF ~ok
             THEN Reply(i, 400, "none", 0)
             ELSE IF ~users.exists
             THEN Reply(i, 404, "none", 0)
             ELSE Goto(i, [pc |-> "cacheSet", row |-> users.version])
    /\ UNCHANGED <<notCache, users, userStore, acked>>

\* part_004:102-110: await userStore.set(id, userDataToCache); sendSuccess
GetUserCacheSet ==
    /\ \E i \in DOMAIN requests, ok \in BOOLEAN :
          /\ At(i, "getUser", "cacheSet")
          /\ IF ok
             THEN /\ userStore' = requests[i].row
                  /\ Reply(i, 200, "db", requests[i].row)
             ELSE /\ Reply(i, 400, "none", 0)
                  /\ UNCHANGED userStore
    /\ UNCHANGED <<notCache, users, acked>>

\* part_004:130-146 and 185-200: does the user exist?
SelectForWrite ==
    /\ \E i \in DOMAIN requests, ok \in BOOLEAN :
          /\ At(i, "updateUser", "select") \/ At(i, "deleteUser", "select")
          /\ IF ~ok
             THEN Reply(i, 400, "none", 0)
             ELSE IF ~users.exists
             THEN Reply(i, 404, "none", 0)
             ELSE Goto(i, [pc |-> "write"])
    /\ UNCHANGED <<notCache, users, userStore, acked>>

\* part_004:151-165: db.update(user).set(updatedFields).returning()
UpdateUserWrite ==
    /\ \E i \in DOMAIN requests, ok \in BOOLEAN :
          /\ At(i, "updateUser", "write")
          /\ IF ok /\ users.exists
             THEN /\ users' = [users EXCEPT !.version = @ + 1]
                  /\ Goto(i, [pc |-> "cacheDel", row |-> users.version + 1])
             ELSE /\ Reply(i, 400, "none", 0)
                  /\ UNCHANGED users
    /\ UNCHANGED <<notCache, userStore, acked>>

\* part_004:203-208: db.delete(user)
DeleteUserWrite ==
    /\ \E i \in DOMAIN requests, ok \in BOOLEAN :
          /\ At(i, "deleteUser", "write")
          /\ IF ok
             THEN /\ users' = [users EXCEPT !.exists = FALSE]
                  /\ Goto(i, [pc |-> "cacheDel"])
             ELSE /\ Reply(i, 400, "none", 0)
                  /\ UNCHANGED users
    /\ UNCHANGED <<notCache, userStore, acked>>

\* part_004:168 and 211: await userStore.del(id)
InvalidateCache ==
    /\ \E i \in DOMAIN requests, ok \in BOOLEAN :
          /\ At(i, "updateUser", "cacheDel") \/ At(i, "deleteUser", "cacheDel")
          /\ IF ok
             THEN /\ userStore' = 0
                  /\ Goto(i, [pc |-> "respond"])
             ELSE /\ Reply(i, 400, "none", 0)
                  /\ UNCHANGED userStore
    /\ UNCHANGED <<notCache, users, acked>>

\* part_004:171: sendSuccess(res, updatedUser)
UpdateUserRespond ==
    /\ \E i \in DOMAIN requests :
          /\ At(i, "updateUser", "respond")
          /\ Reply(i, 200, "db", requests[i].row)
          /\ acked' = [acked EXCEPT !.version =
                          IF requests[i].row > @ THEN requests[i].row ELSE @]
    /\ UNCHANGED <<notCache, users, userStore>>

\* part_004:214: res.status(204).send()
DeleteUserRespond ==
    /\ \E i \in DOMAIN requests :
          /\ At(i, "deleteUser", "respond")
          /\ Reply(i, 204, "none", 0)
          /\ acked' = [acked EXCEPT !.deleted = TRUE]
    /\ UNCHANGED <<notCache, users, userStore>>

\* valkey-store.ts: the entry of userStore outlives its defaultTTLSeconds
ExpireUser ==
    /\ userStore # 0
    /\ userStore' = 0
    /\ UNCHANGED <<notCache, users, requests, acked>>

NextCache ==
    \/ StartRequest
    \/ GetUserCacheGet
    \/ GetUserSelect
    \/ GetUserCacheSet
    \/ SelectForWrite
    \/ UpdateUserWrite
    \/ DeleteUserWrite
    \/ InvalidateCache
    \/ UpdateUserRespond
    \/ DeleteUserRespond
    \/ ExpireUser

SpecCache == InitCache /\ [][NextCache]_vars

\* C27: a getUser that is answered from the cache returns the user as the
\* updates that had responded with success before it started left it, or
\* a later one, and never a user whose delete had responded before it
\* started.
C27_CacheNeverStale ==
    \A i \in DOMAIN requests :
        (requests[i].kind = "getUser" /\ requests[i].via = "cache") =>
            /\ ~requests[i].acked.deleted
            /\ requests[i].body >= requests[i].acked.version

====
